---- MODULE Spec2Model ----
(***************************************************************************)
(* Model of hydrological_toolbox/data/download_sea_surface_temperature.py: *)
(* download_sst() and SeaSurfaceTempDownloader.                            *)
(*                                                                         *)
(* Conventions.  Python sequences are TLA+ sequences, so every index kept  *)
(* in the model is the Python index plus one.  Floating point readings     *)
(* are integers under an order preserving map (Threshold stands for the    *)
(* -9e35 of the source, FillValue for -9.96921e+36); NaN is a value of its *)
(* own that no comparison is true of.  Coordinates                         *)
(* are whole degrees.  A calendar date string "YYYY-MM-DD" is the triple   *)
(* <<y, m, d>>; a pandas Timestamp is a day count from 1970-01-01; an      *)
(* entry of the grid's time axis is a day count from 1800-01-01.           *)
(***************************************************************************)
EXTENDS Integers, Sequences, FiniteSets, TLC

\* ------------------------------------------------------------------ bounds
\* The most query locations a request carries.
MaxLocs == 2
\* The requested dates lie in the WindowDays last days of 2010 and the
\* WindowDays first days of 2011.
WindowDays == 2

\* --------------------------------------------------------------- constants
\* The -9e35 of output['SST'] < -9e35.
Threshold == -9
\* "missing data are marked as -9.96921e+36".
FillValue == -100
\* np.nan: outside the range of every reading of the model.
NaN == 999999

\* ---------------------------------------------------------------- calendar
\* Days from 1970-01-01 to the proleptic Gregorian date y-m-d.
DaysFromCivil(y, m, d) ==
    LET yy  == IF m <= 2 THEN y - 1 ELSE y
        era == yy \div 400
        yoe == yy - era * 400
        mp  == IF m > 2 THEN m - 3 ELSE m + 9
        doy == (153 * mp + 2) \div 5 + d - 1
        doe == yoe * 365 + yoe \div 4 - yoe \div 100 + doy
    IN  era * 146097 + doe - 719468

\* The date <<y, m, d>> that lies z days after 1970-01-01.
CivilFromDays(z) ==
    LET zz  == z + 719468
        era == zz \div 146097
        doe == zz - era * 146097
        yoe == (doe - doe \div 1460 + doe \div 36524 - doe \div 146096) \div 365
        doy == doe - (365 * yoe + yoe \div 4 - yoe \div 100)
        mp  == (5 * doy + 2) \div 153
        d   == doy - (153 * mp + 2) \div 5 + 1
        m   == IF mp < 10 THEN mp + 3 ELSE mp - 9
        y   == yoe + era * 400
    IN  << IF m <= 2 THEN y + 1 ELSE y, m, d >>

\* pd.Timestamp(date string): the day count of a date string.
to_timestamp(s) == DaysFromCivil(s[1], s[2], s[3])

\* str(time_stamp).split(' ')[0]: the date string of a Timestamp.
timestamp_str(ts) == CivilFromDays(ts)

\* time_stamp.year
timestamp_year(ts) == CivilFromDays(ts)[1]

\* str(date(1800, 1, 1) + timedelta(int(t))): the date string of a time-axis entry.
timeline_str(t) == CivilFromDays(DaysFromCivil(1800, 1, 1) + t)

\* A mutant of date_range: the end date left out.
date_range_open(start, end) ==
    LET a == to_timestamp(start)
        b == to_timestamp(end)
    IN  [k \in 1..(IF b > a THEN b - a ELSE 0) |-> a + k - 1]

\* pd.date_range(start, end): every day from start to end, both included.
date_range(start, end) ==
    LET a == to_timestamp(start)
        b == to_timestamp(end)
    IN  [k \in 1..(IF b >= a THEN b - a + 1 ELSE 0) |-> a + k - 1]

\* ----------------------------------------------------------- Python values
\* A Python value: a number, a string (val is its length), a list or tuple,
\* a DataFrame (val = 1 when it has the columns LAT and LON; items are its
\* rows), or anything else.
PyNum(v)   == [tag |-> "num",   val |-> v, items |-> << >>]
PyStr(n)   == [tag |-> "str",   val |-> n, items |-> << >>]
PyList(xs) == [tag |-> "list",  val |-> 0, items |-> xs]
PyTable(hasCols, rows) == [tag |-> "table", val |-> hasCols, items |-> rows]
PyOther    == [tag |-> "other", val |-> 0, items |-> << >>]

PyPair(p) == PyList(<< PyNum(p[1]), PyNum(p[2]) >>)

\* ------------------------------------------------------------- constructors
Outcome(exc, temp, locs) == [exc |-> exc, temp |-> temp, locs |-> locs]

\* SeaSurfaceTempDownloader.__init__: the temporary directory is made first;
\* locations[[lat_col, lon_col]] raises KeyError when a column is absent, and
\* TypeError when locations cannot be indexed by a list of names at all.
SeaSurfaceTempDownloader_init(locations) ==
    IF locations.tag = "table"
    THEN IF locations.val = 1
         THEN Outcome("", TRUE, locations.items)
         ELSE Outcome("KeyError", TRUE, << >>)
    ELSE Outcome("TypeError", TRUE, << >>)

\* The number of columns of pd.DataFrame(rows), rows a list of lists.
NumColumns(rows) ==
    CHOOSE n \in 0..8 :
        /\ \A k \in 1..Len(rows) : Len(rows[k].items) <= n
        /\ \/ n = 0
           \/ \E k \in 1..Len(rows) : Len(rows[k].items) = n

\* SeaSurfaceTempDownloader.from_tuples.  Only the first element is looked at:
\* the frame is built from whatever the other elements are, and naming its
\* columns LAT, LON raises ValueError unless it has exactly two columns.
\* (Every list of the model whose first element is a list holds only lists.)
from_tuples(locations) ==
    IF Len(locations.items) = 0
    THEN Outcome("IndexError", FALSE, << >>)
    ELSE LET location_peek == locations.items[1]
             rows == IF location_peek.tag = "list"
                     THEN locations.items
                     ELSE << PyList(locations.items) >>
         IN  IF location_peek.tag \notin {"list", "num"}
             THEN Outcome("TypeError", FALSE, << >>)
             ELSE IF NumColumns(rows) # 2
                  THEN Outcome("ValueError", FALSE, << >>)
                  ELSE SeaSurfaceTempDownloader_init(PyTable(1, rows))

\* A mutant of download_sst_branch: the string checks come after the
\* construction of the downloader.
download_sst_branch_strings_late(locations) ==
    CASE locations.tag \in {"table", "str"} -> "init"
      [] locations.tag = "list"  -> "from_tuples"
      [] OTHER -> "raise"

\* download_sst: which branch of the isinstance chain is taken.  All three
\* raising branches (two-character string, longer string, anything else)
\* raise TypeError.
download_sst_branch(locations) ==
    CASE locations.tag = "table" -> "init"
      [] locations.tag = "list"  -> "from_tuples"
      [] locations.tag = "str" /\ locations.val = 2 -> "raise"
      [] locations.tag = "str" /\ locations.val > 2 -> "raise"
      [] OTHER -> "raise"

\* download_sst up to `return downloader.download()`.
construct(locations) ==
    CASE download_sst_branch(locations) = "init" -> SeaSurfaceTempDownloader_init(locations)
      [] download_sst_branch(locations) = "from_tuples" -> from_tuples(locations)
      [] OTHER -> Outcome("TypeError", FALSE, << >>)

\* ------------------------------------------------------------------ inputs
\* Query points (lat, lon): a grid cell centre west of Greenwich, and a point
\* half way between two cells.
Points == { <<10, -10>>, <<5, 0>> }

PointSeqs == UNION { [1..n -> Points] : n \in 1..MaxLocs }

\* Well-formed location inputs: a table, a list of pairs, one flat pair.
GoodLocationArgs ==
    { PyTable(1, [k \in 1..Len(ps) |-> PyPair(ps[k])]) : ps \in PointSeqs }
    \cup { PyList([k \in 1..Len(ps) |-> PyPair(ps[k])]) : ps \in PointSeqs }
    \cup { PyPair(p) : p \in Points }

\* Other location inputs: strings of 0, 1, 2 and 5 characters, a table
\* without the coordinate columns, a value of another type, an empty list, a
\* flat triple, a list that starts with a string, a list of pairs of strings.
BadLocationArgs ==
    { PyStr(0), PyStr(1), PyStr(2), PyStr(5),
      PyTable(0, << PyPair(<<10, -10>>) >>),
      PyOther,
      PyList(<< >>),
      PyList(<< PyNum(1), PyNum(2), PyNum(3) >>),
      PyList(<< PyStr(1), PyNum(1) >>),
      PyList(<< PyList(<< PyStr(1), PyStr(1) >>) >>) }

LocationArgs == GoodLocationArgs \cup BadLocationArgs

\* The first day of 2011, as a Timestamp.
YearBoundary == DaysFromCivil(2011, 1, 1)

\* The date strings a request may name.
DateArgs == { CivilFromDays(z) : z \in (YearBoundary - WindowDays)..(YearBoundary + WindowDays - 1) }

\* ------------------------------------------------------------- grid files
\* A time-axis entry: the day count from 1800-01-01 of a Timestamp.
TimeOffset(ts) == ts - DaysFromCivil(1800, 1, 1)

Years == { timestamp_year(YearBoundary - 1), timestamp_year(YearBoundary) }

\* The days a file of the model holds for its year: the days of the request
\* window in that year and one day more, in ascending order.
FullAxis(year) ==
    IF year = timestamp_year(YearBoundary)
    THEN [k \in 1..(WindowDays + 1) |-> TimeOffset(YearBoundary + k - 1)]
    ELSE [k \in 1..(WindowDays + 1) |-> TimeOffset(YearBoundary - WindowDays - 2 + k)]

\* The same axis with one day absent: 2010-12-31, or 2011-01-02.
GapAxis(year) ==
    LET gone == IF year = timestamp_year(YearBoundary)
                THEN TimeOffset(YearBoundary + 1)
                ELSE TimeOffset(YearBoundary - 1)
    IN  SelectSeq(FullAxis(year), LAMBDA t : t # gone)

\* The axis of a file that covers the other year.
WrongAxis(year) == FullAxis(CHOOSE y \in Years : y # year)

\* Coordinate axes as stored in a file (longitudes in 0..360): 3 x 2 with
\* ascending latitudes, 2 x 3 with descending latitudes.
CoordAxes ==
    { [lat |-> << -10, 0, 10 >>, lon |-> << 0, 350 >>],
      [lat |-> << 10, -2 >>,     lon |-> << 0, 180, 350 >>] }

\* The readings of a file: all the fill value, all NaN, or a reading that
\* names its own cell: the threshold itself at time 2, latitude 3,
\* longitude 1, less in the cells before it and more in the cells after it.
SstPatterns == { "fill", "nan", "coded" }

SstValue(pattern, t, i, j) ==
    CASE pattern = "fill"  -> FillValue
      [] pattern = "nan"   -> NaN
      [] OTHER -> Threshold + 100 * (t - 2) + 10 * (i - 3) + (j - 1)

GridFile(c, tm, pt) ==
    [lat |-> c.lat, lon |-> c.lon, time |-> tm,
     sst |-> [t \in 1..Len(tm), i \in 1..Len(c.lat), j \in 1..Len(c.lon)
                |-> SstValue(pt, t, i, j)]]

\* What the netCDF file of a year may hold: every grid and every pattern of
\* readings on the year's own days, and files with a day absent or of the
\* other year.
GridFiles(year) ==
    { GridFile(c, FullAxis(year), pt) : c \in CoordAxes, pt \in SstPatterns }
    \cup { GridFile(c, tm, "coded") :
             c \in { a \in CoordAxes : Len(a.lat) = 3 },
             tm \in { GapAxis(year), WrongAxis(year) } }

\* read_dataset: the four arrays, longitudes above 180 moved down by 360.
read_dataset(file) ==
    [file EXCEPT !.lon = [k \in 1..Len(file.lon) |->
                            IF file.lon[k] <= 180 THEN file.lon[k] ELSE file.lon[k] - 360]]

\* ------------------------------------------------------ temporal index
\* Whether regular_time_to_index has the key.
HasKey(timeline, key) == \E i \in 1..Len(timeline) : timeline_str(timeline[i]) = key

\* regular_time_to_index[key]: a dict comprehension keeps, of equal keys, the last.
Lookup(timeline, key) ==
    CHOOSE i \in 1..Len(timeline) :
        /\ timeline_str(timeline[i]) = key
        /\ \A j \in (i + 1)..Len(timeline) : timeline_str(timeline[j]) # key

\* A mutant of get_time_index: a date that is not on the axis gets the
\* first index (regular_time_to_index.get(regular_time, 0)).
get_time_index_default(dataset, list_of_regular_time) ==
    [exc |-> "",
     idx |-> [k \in 1..Len(list_of_regular_time) |->
                IF HasKey(dataset.time, timestamp_str(list_of_regular_time[k]))
                THEN Lookup(dataset.time, timestamp_str(list_of_regular_time[k]))
                ELSE 1]]

\* get_time_index: the index of every requested date on the time axis, or
\* KeyError for the first date that is not on it.
get_time_index(dataset, list_of_regular_time) ==
    IF \A k \in 1..Len(list_of_regular_time) :
           HasKey(dataset.time, timestamp_str(list_of_regular_time[k]))
    THEN [exc |-> "",
          idx |-> [k \in 1..Len(list_of_regular_time) |->
                     Lookup(dataset.time, timestamp_str(list_of_regular_time[k]))]]
    ELSE [exc |-> "KeyError", idx |-> << >>]

\* ------------------------------------------------------- spatial index
\* build_2d_meshgrid: np.meshgrid(a, b) has len(b) rows and len(a) columns;
\* flattened row by row, a varies fastest.
build_2d_meshgrid(a, b) ==
    [k \in 1..(Len(a) * Len(b)) |->
        << a[((k - 1) % Len(a)) + 1], b[((k - 1) \div Len(a)) + 1] >>]

\* np.array(range(len(xs))), one-based.
index_range(xs) == [k \in 1..Len(xs) |-> k]

\* lat_lon_matrix: the coordinates of every candidate point.
lat_lon_matrix(lat, lon) == build_2d_meshgrid(lat, lon)

\* A mutant of lat_lon_idx_matrix: the index pairs laid out row by row of
\* the lat x lon array (meshgrid with indexing='ij').
lat_lon_idx_matrix_ij(lat, lon) ==
    [k \in 1..(Len(lat) * Len(lon)) |->
        << ((k - 1) \div Len(lon)) + 1, ((k - 1) % Len(lon)) + 1 >>]

\* lat_lon_idx_matrix: the index pair of every candidate point.
lat_lon_idx_matrix(lat, lon) == build_2d_meshgrid(index_range(lat), index_range(lon))

\* Squared Euclidean distance in (lat, lon) space.
Dist2(p, q) == (p[1] - q[1]) * (p[1] - q[1]) + (p[2] - q[2]) * (p[2] - q[2])

\* The coordinates of a row of self.locations.
Coords(row) == << row.items[1].val, row.items[2].val >>

Numeric(locs) ==
    \A j \in 1..Len(locs) : \A c \in 1..Len(locs[j].items) : locs[j].items[c].tag = "num"

\* tree.query(self.locations): for every location the position of a nearest
\* candidate.  Which of several equally near candidates the tree returns is
\* left open.
QueryResults(matrix, locs) ==
    { idx \in [1..Len(locs) -> 1..Len(matrix)] :
        \A j \in 1..Len(locs) : \A k \in 1..Len(matrix) :
            Dist2(matrix[idx[j]], Coords(locs[j])) <= Dist2(matrix[k], Coords(locs[j])) }

\* ----------------------------------------------------- year partitioning
\* The elements of a set of integers in ascending order.
SortedSeq(S) ==
    [i \in 1..Cardinality(S) |-> CHOOSE x \in S : Cardinality({y \in S : y < x}) = i - 1]

\* A mutant of remote_url: the year left out of the file name.
remote_url_no_year(year) == 0

\* 'sst.day.mean.<year>.nc' under the parent directory: named by its year.
remote_url(year) == year

\* os.path.join(self.temp_dir, 'sst.day.mean.<year>.nc'): named by its year.
local_path(year) == year

\* remote_to_local_dir_mapping: the dates grouped by year, the years in the
\* order of their first date; then for every year [local_dir, dates] appended
\* to the list kept under the year's url, the urls in the order of their
\* first year.
remote_to_local_dir_mapping(start, end) ==
    LET stamps == date_range(start, end)
        firsts == { k \in 1..Len(stamps) :
                      \A h \in 1..(k - 1) : timestamp_year(stamps[h]) # timestamp_year(stamps[k]) }
        order  == SortedSeq(firsts)
        years  == [i \in 1..Len(order) |-> timestamp_year(stamps[order[i]])]
        bundle(y) == [local_dir |-> local_path(y),
                      dates |-> SelectSeq(stamps, LAMBDA ts : timestamp_year(ts) = y)]
        keys   == SortedSeq({ i \in 1..Len(years) :
                      \A h \in 1..(i - 1) : remote_url(years[h]) # remote_url(years[i]) })
    IN  [n \in 1..Len(keys) |->
           [url |-> remote_url(years[keys[n]]),
            bundles |-> LET mine == SortedSeq({ i \in 1..Len(years) :
                                       remote_url(years[i]) = remote_url(years[keys[n]]) })
                        IN  [b \in 1..Len(mine) |-> bundle(years[mine[b]])]]]

\* ------------------------------------------------------------ extraction
\* np.repeat(xs, n): every element n times in a row.
np_repeat(xs, n) == [k \in 1..(Len(xs) * n) |-> xs[((k - 1) \div n) + 1]]

\* np.tile(xs, n): the whole sequence n times.
np_tile(xs, n) == [k \in 1..(Len(xs) * n) |-> xs[((k - 1) % Len(xs)) + 1]]

\* A mutant of time_index_stretched_to_match_dim: tiled, not repeated.
time_index_tiled(time_index, lat_index) == np_tile(time_index, Len(lat_index))

time_index_stretched_to_match_dim(time_index, lat_index) ==
    np_repeat(time_index, Len(lat_index))

lat_index_stretched_to_match_dim(lat_index, time_index) ==
    np_tile(lat_index, Len(time_index))

lon_index_stretched_to_match_dim(lon_index, time_index) ==
    np_tile(lon_index, Len(time_index))

\* A mutant of date_column: the dates tiled, not repeated.
date_column_tiled(all_dates_in_that_year, lat_index) ==
    np_tile(all_dates_in_that_year, Len(lat_index))

\* np.repeat(all_dates_in_that_year, len(lat_index))
date_column(all_dates_in_that_year, lat_index) ==
    np_repeat(all_dates_in_that_year, Len(lat_index))

\* The data frame of one year: DATE, LAT, LON, SST, row by row.
year_frame(dataset, all_dates_in_that_year, time_index, lat_index, lon_index) ==
    LET ts == time_index_stretched_to_match_dim(time_index, lat_index)
        la == lat_index_stretched_to_match_dim(lat_index, time_index)
        lo == lon_index_stretched_to_match_dim(lon_index, time_index)
        dc == date_column(all_dates_in_that_year, lat_index)
    IN  [k \in 1..Len(ts) |->
           [DATE |-> dc[k],
            LAT  |-> dataset.lat[la[k]],
            LON  |-> dataset.lon[lo[k]],
            SST  |-> dataset.sst[ts[k], la[k], lo[k]]]]

\* -------------------------------------------------------------- assembly
\* pd.concat(result).reset_index(drop=True)
RECURSIVE concat(_)
concat(frames) ==
    IF frames = << >> THEN << >> ELSE Head(frames) \o concat(Tail(frames))

isnull(v) == v = NaN

\* output['SST'].isnull().sum()
null_count(table) == Cardinality({ k \in 1..Len(table) : isnull(table[k].SST) })

\* A mutant of below_threshold: the threshold itself counted as missing.
below_or_at_threshold(v) == v # NaN /\ v <= Threshold

\* output['SST'] < -9e35: false of NaN.
below_threshold(v) == v # NaN /\ v < Threshold

\* output.loc[output['SST'] < -9e35, 'SST'] = np.nan
mark_missing(table) ==
    [k \in 1..Len(table) |->
        IF below_threshold(table[k].SST) THEN [table[k] EXCEPT !.SST = NaN] ELSE table[k]]

\* ------------------------------------------------------------------ state
VARIABLES
    locations_arg,   \* download_sst's locations argument
    start_date,      \* its start_date
    end_date,        \* its end_date
    pc,              \* "call", "constructed", "loop", "returned", "raised"
    exc,             \* the exception raised, "" when none
    temp_dir,        \* whether tempfile.mkdtemp() has been called
    self_locations,  \* self.locations: the rows of the LAT, LON frame
    mapping,         \* self.remote_to_local_dir_mapping, once computed
    year_count,      \* how many years download() has finished
    fetched,         \* the urls retrieved into the temporary directory
    datasets,        \* every dataset read_dataset has returned, in order
    time_index,      \* download()'s time_index
    lat_index,       \* download()'s lat_index
    lon_index,       \* download()'s lon_index
    result,          \* download()'s result: the frames of the finished years
    output,          \* the table download() returns
    warned           \* whether warnings.warn has been called

vars == << locations_arg, start_date, end_date, pc, exc, temp_dir, self_locations,
           mapping, year_count, fetched, datasets, time_index, lat_index, lon_index,
           result, output, warned >>

\* download_sst(locations, start_date, end_date) has just been called.
Init ==
    /\ locations_arg \in LocationArgs
    /\ start_date \in DateArgs
    /\ end_date \in DateArgs
    /\ pc = "call"
    /\ exc = ""
    /\ temp_dir = FALSE
    /\ self_locations = << >>
    /\ mapping = << >>
    /\ year_count = 0
    /\ fetched = {}
    /\ datasets = << >>
    /\ time_index = << >>
    /\ lat_index = << >>
    /\ lon_index = << >>
    /\ result = << >>
    /\ output = << >>
    /\ warned = FALSE

\* download_sst up to the call of download(): the isinstance chain and the
\* constructor it selects.
DownloadSst ==
    /\ pc = "call"
    /\ LET o == construct(locations_arg)
       IN  /\ temp_dir' = o.temp
           /\ self_locations' = o.locs
           /\ exc' = o.exc
           /\ pc' = IF o.exc = "" THEN "constructed" ELSE "raised"
    /\ UNCHANGED << locations_arg, start_date, end_date, mapping, year_count, fetched,
                    datasets, time_index, lat_index, lon_index, result, output, warned >>

\* download() entered: result = [] and the first read of the cached property
\* remote_to_local_dir_mapping.
Plan ==
    /\ pc = "constructed"
    /\ mapping' = remote_to_local_dir_mapping(start_date, end_date)
    /\ pc' = "loop"
    /\ UNCHANGED << locations_arg, start_date, end_date, exc, temp_dir, self_locations,
                    year_count, fetched, datasets, time_index, lat_index, lon_index,
                    result, output, warned >>

\* download_to_local: the file is retrieved unless its local path exists.
download_to_local(link_in, dir_out, present) ==
    IF dir_out \in present THEN present ELSE present \cup {link_in}

\* One pass of the loop of download(): fetch, decode, resolve the indices,
\* slice, append the year's frame.
ProcessYear ==
    /\ pc = "loop"
    /\ year_count < Len(mapping)
    /\ LET unit == mapping[year_count + 1]
           all_dates_in_that_year == unit.bundles[1].dates
       IN  \E file \in GridFiles(timestamp_year(all_dates_in_that_year[1])) :
             LET dataset == read_dataset(file)
                 ti == get_time_index(dataset, all_dates_in_that_year)
             IN  /\ fetched' = download_to_local(unit.url, unit.bundles[1].local_dir, fetched)
                 /\ datasets' = Append(datasets, dataset)
                 /\ IF ti.exc # ""
                    THEN /\ pc' = "raised"
                         /\ exc' = ti.exc
                         /\ UNCHANGED << time_index, lat_index, lon_index, result, year_count >>
                    ELSE /\ time_index' = ti.idx
                         /\ IF ~Numeric(self_locations)
                            THEN \* the tree cannot take coordinates that are no numbers
                                 /\ pc' = "raised"
                                 /\ exc' = "ValueError"
                                 /\ UNCHANGED << lat_index, lon_index, result, year_count >>
                            ELSE \E idx \in QueryResults(lat_lon_matrix(dataset.lat, dataset.lon),
                                                         self_locations) :
                                   LET locations_in_original_data ==
                                         [j \in 1..Len(idx) |->
                                            lat_lon_idx_matrix(dataset.lat, dataset.lon)[idx[j]]]
                                       lai == [j \in 1..Len(idx) |-> locations_in_original_data[j][1]]
                                       loi == [j \in 1..Len(idx) |-> locations_in_original_data[j][2]]
                                   IN  /\ lat_index' = lai
                                       /\ lon_index' = loi
                                       /\ result' = Append(result,
                                             year_frame(dataset, all_dates_in_that_year, ti.idx, lai, loi))
                                       /\ year_count' = year_count + 1
                                       /\ UNCHANGED << pc, exc >>
    /\ UNCHANGED << locations_arg, start_date, end_date, temp_dir, self_locations,
                    mapping, output, warned >>

\* After the loop: concatenate (ValueError when there is no frame), warn when
\* every SST is null, mark the readings below the threshold missing, return.
Assemble ==
    /\ pc = "loop"
    /\ year_count = Len(mapping)
    /\ IF result = << >>
       THEN /\ pc' = "raised"
            /\ exc' = "ValueError"
            /\ UNCHANGED << output, warned >>
       ELSE LET table == concat(result)
                null_values == null_count(table)
            IN  /\ warned' = (null_values = Len(table))
                /\ output' = mark_missing(table)
                /\ pc' = "returned"
                /\ UNCHANGED exc
    /\ UNCHANGED << locations_arg, start_date, end_date, temp_dir, self_locations,
                    mapping, year_count, fetched, datasets, time_index, lat_index,
                    lon_index, result >>

Next == DownloadSst \/ Plan \/ ProcessYear \/ Assemble

Spec == Init /\ [][Next]_vars

\* ----------------------------------------------------- what the claims use
\* The query locations of the request, in the order of the input.
QueryPoints(arg) ==
    IF arg.tag = "list" /\ arg.items # << >> /\ arg.items[1].tag = "num"
    THEN << << arg.items[1].val, arg.items[2].val >> >>
    ELSE [k \in 1..Len(arg.items) |-> << arg.items[k].items[1].val, arg.items[k].items[2].val >>]

\* a <= b for date strings.
DateLeq(a, b) ==
    \/ a[1] < b[1]
    \/ a[1] = b[1] /\ a[2] < b[2]
    \/ a[1] = b[1] /\ a[2] = b[2] /\ a[3] <= b[3]

\* The date strings of the requested range, both ends included.
RequestedDates == { d \in DateArgs : DateLeq(start_date, d) /\ DateLeq(d, end_date) }

\* The processed year whose work unit holds the Timestamp.
UnitOf(ts) == CHOOSE k \in 1..Len(mapping) :
                 \E i \in 1..Len(mapping[k].bundles[1].dates) : mapping[k].bundles[1].dates[i] = ts

\* Cell (a, b) of the dataset is a grid point nearest to q.
NearestCell(ds, a, b, q) ==
    \A i \in 1..Len(ds.lat) : \A j \in 1..Len(ds.lon) :
        Dist2(<< ds.lat[a], ds.lon[b] >>, q) <= Dist2(<< ds.lat[i], ds.lon[j] >>, q)

\* The time axis has an entry for the day of the Timestamp.
OnAxis(timeline, ts) ==
    \E i \in 1..Len(timeline) : DaysFromCivil(1800, 1, 1) + timeline[i] = ts

\* C1: when download() completes, the returned table has (dates of the
\* inclusive range) x (query locations, duplicates counted) rows, which is
\* the sum over the years of (dates of the year) x (locations).
C1_RowCount ==
    pc = "returned" =>
        /\ Len(output) = Cardinality(RequestedDates) * Len(QueryPoints(locations_arg))
        /\ Len(output) = Len(concat([k \in 1..Len(mapping) |->
                                 np_repeat(mapping[k].bundles[1].dates,
                                           Len(QueryPoints(locations_arg)))]))

C1_Witness ==
    /\ pc = "returned"
    /\ Len(mapping) = 2
    /\ Len(QueryPoints(locations_arg)) = 2
    /\ QueryPoints(locations_arg)[1] = QueryPoints(locations_arg)[2]
    /\ Len(output) = 8

\* C2: in the returned table every row of an earlier date precedes every row
\* of a later date, across years too, and the j-th row of a date is the row
\* of the j-th query location of the input.
C2_Ordering ==
    pc = "returned" =>
        \A p \in 1..Len(output) :
            /\ \A q \in 1..Len(output) : output[p].DATE < output[q].DATE => p < q
            /\ LET j  == 1 + Cardinality({ q \in 1..(p - 1) : output[q].DATE = output[p].DATE })
                   ds == datasets[UnitOf(output[p].DATE)]
               IN  /\ j <= Len(QueryPoints(locations_arg))
                   /\ \E a \in 1..Len(ds.lat) : \E b \in 1..Len(ds.lon) :
                        /\ ds.lat[a] = output[p].LAT
                        /\ ds.lon[b] = output[p].LON
                        /\ NearestCell(ds, a, b, QueryPoints(locations_arg)[j])

C2_Witness ==
    /\ pc = "returned"
    /\ Len(mapping) = 2
    /\ Len(output) = 8
    /\ QueryPoints(locations_arg) = << <<5, 0>>, <<10, -10>> >>
    /\ output[1].DATE < output[3].DATE
    /\ output[1].LON = 0
    /\ output[2].LON = -10

\* C3 as stated: every extracted reading at or below the threshold is
\* returned as missing, every reading above it is returned unchanged.
C3_Original ==
    pc = "returned" =>
        \A p \in 1..Len(output) :
            LET v == concat(result)[p].SST
            IN  /\ (v # NaN /\ v <= Threshold) => output[p].SST = NaN
                /\ (v # NaN /\ v > Threshold) => output[p].SST = v

\* C3 as amended: every extracted reading strictly below the threshold is
\* returned as missing, and every reading at or above it, the threshold
\* itself included, is returned unchanged.
C3_Amended ==
    pc = "returned" =>
        \A p \in 1..Len(output) :
            LET v == concat(result)[p].SST
            IN  /\ (v # NaN /\ v < Threshold) => output[p].SST = NaN
                /\ (v # NaN /\ v >= Threshold) => output[p].SST = v

C3_Witness ==
    /\ pc = "returned"
    /\ \E p \in 1..Len(output) :
          concat(result)[p].SST = Threshold /\ output[p].SST = Threshold
    /\ \E p \in 1..Len(output) :
          concat(result)[p].SST = Threshold - 10 /\ output[p].SST = NaN
    /\ \E p \in 1..Len(output) :
          concat(result)[p].SST = Threshold + 1 /\ output[p].SST = Threshold + 1

\* C4: when every cell read holds the fill value, download() returns the
\* table of dates x locations rows, all of them missing, and warns; and it
\* warns exactly when every SST of the table it returns is missing.
C4_AllMissingSignal ==
    pc = "returned" =>
        /\ (\A p \in 1..Len(output) : concat(result)[p].SST = FillValue) =>
              /\ Len(output) = Cardinality(RequestedDates) * Len(QueryPoints(locations_arg))
              /\ \A p \in 1..Len(output) : output[p].SST = NaN
              /\ warned
        /\ warned <=> \A p \in 1..Len(output) : output[p].SST = NaN

\* C5: once the mapping is computed it has one work unit per calendar year
\* of the range, in ascending year order, each under the url of its year
\* with exactly one bundle, whose dates are the dates of the range in that
\* year in ascending order; 2010-12-30..2011-01-02 gives 2010 with Dec 30
\* and 31, and 2011 with Jan 1 and 2.
C5_YearPartition ==
    pc = "loop" =>
        /\ Len(mapping) = Cardinality({ d[1] : d \in RequestedDates })
        /\ \A k \in 1..Len(mapping) :
             /\ Len(mapping[k].bundles) = 1
             /\ \A h \in 1..(k - 1) : mapping[h].url < mapping[k].url
             /\ LET dates == mapping[k].bundles[1].dates
                IN  /\ { timestamp_str(dates[i]) : i \in 1..Len(dates) }
                         = { d \in RequestedDates : d[1] = mapping[k].url }
                    /\ \A i \in 1..(Len(dates) - 1) :
                          /\ dates[i] < dates[i + 1]
                          /\ timestamp_str(dates[i]) # timestamp_str(dates[i + 1])
                          /\ DateLeq(timestamp_str(dates[i]), timestamp_str(dates[i + 1]))
        /\ (start_date = <<2010, 12, 30>> /\ end_date = <<2011, 1, 2>>) =>
             [k \in 1..Len(mapping) |->
                << mapping[k].url,
                   [i \in 1..Len(mapping[k].bundles[1].dates) |->
                      timestamp_str(mapping[k].bundles[1].dates[i])] >>]
             = << << 2010, << <<2010, 12, 30>>, <<2010, 12, 31>> >> >>,
                  << 2011, << <<2011, 1, 1>>, <<2011, 1, 2>> >> >> >>

C5_Witness ==
    /\ pc = "loop"
    /\ start_date = <<2010, 12, 30>>
    /\ end_date = <<2011, 1, 2>>
    /\ Len(mapping) = 2
    /\ Len(mapping[1].bundles[1].dates) = 2

\* C6: a dataset whose time axis lacks a date of its year's work unit makes
\* download() raise KeyError at once: that year is the last one read, its
\* frame is not built, and no table is returned, whatever the earlier years
\* gave.
C6_DateNotFoundIsFatal ==
    \A k \in 1..Len(datasets) :
        (\E i \in 1..Len(mapping[k].bundles[1].dates) :
            ~OnAxis(datasets[k].time, mapping[k].bundles[1].dates[i]))
        => /\ pc = "raised"
           /\ exc = "KeyError"
           /\ output = << >>
           /\ k = Len(datasets)
           /\ year_count = k - 1
           /\ Len(result) = k - 1

C6_Witness ==
    /\ pc = "raised"
    /\ exc = "KeyError"
    /\ Len(datasets) = 2
    /\ Len(result) = 1
    /\ Len(result[1]) > 0
    /\ output = << >>

\* C7: a string location raises TypeError before a downloader exists: no
\* temporary directory, no locations, no mapping, no fetch, no decode.
C7_StringRejected ==
    (locations_arg.tag = "str" /\ pc # "call") =>
        /\ pc = "raised"
        /\ exc = "TypeError"
        /\ ~temp_dir
        /\ self_locations = << >>
        /\ mapping = << >>
        /\ fetched = {}
        /\ datasets = << >>

C7_Witness ==
    /\ locations_arg = PyStr(2)
    /\ pc = "raised"
    /\ exc = "TypeError"
    /\ ~temp_dir

\* A table, one numeric pair, or a list of numeric pairs.
SupportedShape(arg) ==
    \/ arg.tag = "table"
    \/ /\ arg.tag = "list"
       /\ Len(arg.items) = 2
       /\ \A c \in 1..2 : arg.items[c].tag = "num"
    \/ /\ arg.tag = "list"
       /\ Len(arg.items) > 0
       /\ \A k \in 1..Len(arg.items) :
            /\ arg.items[k].tag = "list"
            /\ Len(arg.items[k].items) = 2
            /\ \A c \in 1..2 : arg.items[k].items[c].tag = "num"

\* C8: a location input of no supported shape fails at once and never
\* becomes a location set (any of TypeError, IndexError and ValueError is
\* taken for the unsupported-input error here).
C8_UnsupportedRejected ==
    (~SupportedShape(locations_arg) /\ pc # "call") =>
        /\ pc = "raised"
        /\ exc \in {"TypeError", "IndexError", "ValueError"}
        /\ self_locations = << >>
        /\ ~temp_dir
        /\ fetched = {}

\* C9: after get_lat_lon_index, the cell (lat_index[j], lon_index[j]) of every
\* query location j is a grid point at least Euclidean distance from it among
\* all M x N grid points, and is the very cell the location lies on when it
\* lies on one.
C9_NearestCell ==
    year_count >= 1 =>
        LET ds == datasets[year_count]
        IN  \A j \in 1..Len(self_locations) :
              /\ lat_index[j] \in 1..Len(ds.lat)
              /\ lon_index[j] \in 1..Len(ds.lon)
              /\ NearestCell(ds, lat_index[j], lon_index[j], QueryPoints(locations_arg)[j])
              /\ \A a \in 1..Len(ds.lat) : \A b \in 1..Len(ds.lon) :
                    << ds.lat[a], ds.lon[b] >> = QueryPoints(locations_arg)[j]
                    => (lat_index[j] = a /\ lon_index[j] = b)

C9_Witness ==
    /\ year_count >= 1
    /\ Len(datasets[year_count].lat) = 2
    /\ Len(datasets[year_count].lon) = 3
    /\ QueryPoints(locations_arg) = << <<5, 0>>, <<10, -10>> >>
    /\ lat_index = << 1, 1 >>
    /\ lon_index = << 1, 3 >>

\* C10: in the frame of the year just finished, the row of the i-th date d
\* and the j-th location holds DATE = d, the latitude and the normalised
\* longitude of the location's nearest cell, and the reading of the year's
\* grid at the time index of d and that cell.
C10_RowContent ==
    year_count >= 1 =>
        LET ds    == datasets[year_count]
            frame == result[year_count]
            dates == mapping[year_count].bundles[1].dates
            n     == Len(QueryPoints(locations_arg))
        IN  /\ Len(frame) = Len(dates) * n
            /\ \A i \in 1..Len(dates) : \A j \in 1..n :
                 LET row == frame[(i - 1) * n + j]
                 IN  /\ row.DATE = dates[i]
                     /\ row.LAT = ds.lat[lat_index[j]]
                     /\ row.LON = ds.lon[lon_index[j]]
                     /\ row.LON >= -180 /\ row.LON <= 180
                     /\ NearestCell(ds, lat_index[j], lon_index[j], QueryPoints(locations_arg)[j])
                     /\ \E t \in 1..Len(ds.time) :
                          /\ DaysFromCivil(1800, 1, 1) + ds.time[t] = dates[i]
                          /\ row.SST = ds.sst[t, lat_index[j], lon_index[j]]

C10_Witness ==
    /\ year_count = 2
    /\ Len(result[2]) = 4
    /\ QueryPoints(locations_arg) = << <<5, 0>>, <<10, -10>> >>
    /\ result[2][1].LAT = 10
    /\ result[2][1].SST # result[2][3].SST
    /\ result[2][3].SST = Threshold
    /\ result[2][4].SST = Threshold + 1

====
